---------------------------- MODULE Spec2Model ----------------------------
(***************************************************************************)
(* pink-core: Run (core.go), the IPC listener and client (ipc.go), and the *)
(* port file that lets processes find each other.                          *)
(*                                                                         *)
(* The model is a set of daemon processes (each one call of Run), a set of *)
(* external client programs calling IsRunning / SendStop / SendCommand,    *)
(* the port files of the service directories, and the loopback TCP         *)
(* connections between them.  Every goroutine of the code is a family of   *)
(* actions: Run itself, the accept loop, one handler per connection, the   *)
(* signal watcher, and the caller's task.                                  *)
(***************************************************************************)
EXTENDS Integers, Sequences, FiniteSets, TLC

\* ------------------------------------------------------------------ bounds

\* Termination signals the environment sends, all together.
MaxSignals == 2
\* Calls made by the external client programs, all together.
MaxCalls == 1
\* Processes started (calls of Run), all together.
MaxLaunches == 2

\* ------------------------------------------------------------ the universe

Procs == {"p1", "p2"}
Clients == {"c1", "c2"}
Callers == Procs \cup Clients
Names == {"demo", "other", "my-daemon"}
\* The ephemeral ports the OS hands out (net.Listen on 127.0.0.1:0).
Ports == {11, 12}

Space == {" ", "\t", "\n", "\r"}
Digits == <<"0", "1", "2", "3", "4", "5", "6", "7", "8", "9">>

\* The commands a client program sends with SendCommand.
Cmds == {<<"PING">>, <<"STOP">>, <<"dialog">>}

\* ----------------------------------------------------- strings and parsing

\* strings.TrimSpace: leading and trailing white space removed.
RECURSIVE TrimLeft(_)
TrimLeft(s) ==
    IF s # <<>> /\ Head(s) \in Space THEN TrimLeft(Tail(s)) ELSE s

RECURSIVE TrimRight(_)
TrimRight(s) ==
    IF s # <<>> /\ s[Len(s)] \in Space
    THEN TrimRight(SubSeq(s, 1, Len(s) - 1))
    ELSE s

TrimSpace(s) == TrimRight(TrimLeft(s))

\* strconv.Itoa of a non-negative number: its decimal digits.
RECURSIVE Itoa(_)
Itoa(n) ==
    IF n < 10 THEN <<Digits[n + 1]>>
    ELSE Itoa(n \div 10) \o <<Digits[(n % 10) + 1]>>

IsDigit(ch) == \E d \in 1..10 : Digits[d] = ch

DigitVal(ch) == (CHOOSE d \in 1..10 : Digits[d] = ch) - 1

RECURSIVE DigitsVal(_)
DigitsVal(s) ==
    IF s = <<>> THEN 0
    ELSE 10 * DigitsVal(SubSeq(s, 1, Len(s) - 1)) + DigitVal(s[Len(s)])

\* strconv.Atoi: an optional sign, then one or more digits; anything else
\* is an error, and the value is then 0.
Atoi(s) ==
    LET body == IF s # <<>> /\ Head(s) \in {"+", "-"} THEN Tail(s) ELSE s
        good == body # <<>> /\ \A i \in 1..Len(body) : IsDigit(body[i])
    IN  IF ~good THEN [ok |-> FALSE, val |-> 0]
        ELSE IF Head(s) = "-" THEN [ok |-> TRUE, val |-> 0 - DigitsVal(body)]
        ELSE [ok |-> TRUE, val |-> DigitsVal(body)]

\* bufio.Reader.ReadString('\n'): the bytes up to and including the first
\* line feed; with the stream ended first, what was read and an error.
HasLine(buf) == \E i \in 1..Len(buf) : buf[i] = "\n"

ReadString(buf) ==
    IF HasLine(buf)
    THEN LET i == CHOOSE k \in 1..Len(buf) :
                      buf[k] = "\n" /\ \A j \in 1..(k - 1) : buf[j] # "\n"
         IN  [line |-> SubSeq(buf, 1, i), err |-> FALSE]
    ELSE [line |-> buf, err |-> TRUE]


\* ------------------------------------------------------------------- state

VARIABLES
    portFile,   \* per service name: the file {name}.port of its directory
    cfg,        \* per process: Config.Name and whether Config.IPCHandler is set
    pc,         \* per process: where Run is
    lport,      \* per process: the port net.Listen assigned (0: none yet)
    lopen,      \* per process: the listener is open
    ctx,        \* per process: the context of context.WithCancel
    sig,        \* per process: sigCh (its buffer) and the signals sent so far
    watcher,    \* per process: where the signal goroutine is
    exit,       \* per process: how and with what status it exited
    hist,       \* per process: what Run has done so far
    call,       \* per caller: its IsRunning / SendStop / SendCommand call
    conn,       \* per caller: the TCP connection of that call, both ends
    quota,      \* what the environment may still do: launches, client
                \* calls and signals left, and the service names in use
    cli,        \* per process: os.Args[1:], Config.Commands, whether main
                \* is nil, and what the CLI part of Run has done
    task        \* per process: where the caller's task is

vars == <<portFile, cfg, pc, lport, lopen, ctx, sig, watcher, exit, hist,
          call, conn, quota, cli, task>>

NoFile == [exists |-> FALSE, data |-> <<>>]

File(data) == [exists |-> TRUE, data |-> data]

\* The services: the Config each binary passes to Run.  "demo" sets an
\* IPCHandler, "other" leaves it nil.
Config(n) == [name |-> n, handler |-> (n = "demo")]

NoCfg == Config("other")

NoCtx == [done |-> FALSE, flips |-> 0]

NoSig == [ch |-> 0, sent |-> 0]

NoExit == [why |-> "none", code |-> 0]

NoHist == [wrote |-> FALSE, invoked |-> FALSE, closed |-> FALSE,
           removed |-> FALSE]

NoCall == [op |-> "none", name |-> "demo", cmd |-> <<>>, pc |-> "idle",
           port |-> 0, resp |-> <<>>, err |-> "", ret |-> FALSE]

NoConn == [srv |-> "none", st |-> "none", inb |-> <<>>, out |-> <<>>,
           cmd |-> <<>>, eof |-> FALSE]

\* A program started with no argument and a task: daemon mode.
NoCli == [args |-> <<>>, commands |-> {}, main |-> TRUE, ran |-> FALSE,
          out |-> "none"]

NewCall(op, name, cmd) ==
    [NoCall EXCEPT !.op = op, !.name = name, !.cmd = cmd, !.pc = "resolve"]

Alive(p) == pc[p] \notin {"idle", "exited"}

\* Processes and client programs are named in the order they are started,
\* and ports in the order the OS first hands them out.
Before(a, b) == <<a, b>> \in {<<"p1", "p2">>, <<"c1", "c2">>}


\* --------------------------------------------------------- the port file

\* portFilePath: one file per service name.
portFilePath(name) == name

\* readPort with both errors dropped: (0, nil) for a file that is missing
\* or holds no number.
readPortNoError(name) ==
    LET f == portFile[portFilePath(name)]
    IN  IF ~f.exists THEN [ok |-> TRUE, val |-> 0]
        ELSE [ok |-> TRUE, val |-> Atoi(TrimSpace(f.data)).val]

\* readPort: os.ReadFile, then strconv.Atoi of the trimmed contents.
readPort(name) ==
    LET f == portFile[portFilePath(name)]
    IN  IF ~f.exists THEN [ok |-> FALSE, val |-> 0]
        ELSE Atoi(TrimSpace(f.data))

\* ------------------------------------------------------------ the context

\* A cancel that is not idempotent: a second call undoes the first.
CancelFuncToggles(c) ==
    [done |-> ~c.done, flips |-> IF c.done THEN c.flips ELSE c.flips + 1]

\* The CancelFunc of context.WithCancel: the first call cancels the context,
\* every later call does nothing.
CancelFunc(c) ==
    [done |-> TRUE, flips |-> IF c.done THEN c.flips ELSE c.flips + 1]

\* A process ends: the kernel closes its listener and every connection it
\* holds; what its handlers had written stays readable by the peer.
ClosedBy(p) ==
    [c \in Callers |->
        IF conn[c].srv = p /\ conn[c].st \notin {"none", "closed"}
        THEN [conn[c] EXCEPT !.st = "closed"]
        ELSE conn[c]]

\* listener.Close(): connections not yet accepted are reset.
ResetBacklog(p) ==
    [c \in Callers |->
        IF conn[c].srv = p /\ conn[c].st = "backlog"
        THEN [conn[c] EXCEPT !.st = "closed"]
        ELSE conn[c]]

\* os.Exit(code), or the return of the program's main: the process is gone,
\* with its listener, its connections and its goroutines.
osExit(p, why, code) ==
    /\ pc' = [pc EXCEPT ![p] = "exited"]
    /\ exit' = [exit EXCEPT ![p] = [why |-> why, code |-> code]]
    /\ lport' = [lport EXCEPT ![p] = 0]
    /\ lopen' = [lopen EXCEPT ![p] = FALSE]
    /\ sig' = [sig EXCEPT ![p] = NoSig]
    /\ watcher' = [watcher EXCEPT ![p] = "off"]
    /\ conn' = ClosedBy(p)

\* ---------------------------------------------------------- Run (core.go)

\* A service binary is started in daemon mode (no CLI argument, main given):
\* Run begins with the singleton check, a call of IsRunning(cfg.Name).
Launch(p, n) ==
    /\ pc[p] = "idle"
    /\ n \in quota.names
    /\ \A q \in Procs : Before(q, p) => pc[q] # "idle"
    /\ quota.launch > 0
    /\ quota' = [quota EXCEPT !.launch = @ - 1]
    /\ cfg' = [cfg EXCEPT ![p] = Config(n)]
    /\ pc' = [pc EXCEPT ![p] = "singleton"]
    /\ call' = [call EXCEPT ![p] = NewCall("ping", n, <<>>)]
    /\ UNCHANGED <<cli, task, portFile, lport, lopen, ctx, sig, watcher, exit, hist,
                   conn>>

\* if IsRunning(cfg.Name) { ...; os.Exit(1) }
SingletonExit(p) ==
    /\ pc[p] = "singleton"
    /\ call[p].pc = "done"
    /\ call[p].ret
    /\ osExit(p, "already running", 1)
    /\ UNCHANGED <<cli, task, portFile, cfg, ctx, hist, call, quota>>

\* Run without the os.Exit(1) of the singleton check: it goes on whatever
\* IsRunning returned.
SingletonPassAlways(p) ==
    /\ pc[p] = "singleton"
    /\ call[p].pc = "done"
    /\ pc' = [pc EXCEPT ![p] = "listen"]
    /\ call' = [call EXCEPT ![p] = NoCall]
    /\ conn' = [conn EXCEPT ![p] = NoConn]
    /\ UNCHANGED <<cli, task, portFile, cfg, lport, lopen, ctx, sig, watcher, exit,
                   hist, quota>>

\* IsRunning returned false: ctx, cancel := context.WithCancel(...)
SingletonPass(p) ==
    /\ pc[p] = "singleton"
    /\ call[p].pc = "done"
    /\ ~call[p].ret
    /\ pc' = [pc EXCEPT ![p] = "listen"]
    /\ call' = [call EXCEPT ![p] = NoCall]
    /\ conn' = [conn EXCEPT ![p] = NoConn]
    /\ UNCHANGED <<cli, task, portFile, cfg, lport, lopen, ctx, sig, watcher, exit,
                   hist, quota>>

\* The ports some part of the state names.
Assigned ==
    {lport[q] : q \in Procs} \cup {call[c].port : c \in Callers}
        \cup {readPort(n).val : n \in Names}

FreePorts == Ports \ {lport[q] : q \in {r \in Procs : lopen[r]}}

\* startIPCListener: net.Listen("tcp", "127.0.0.1:0") binds a free port.
Listen(p, port) ==
    /\ pc[p] = "listen"
    /\ port \in FreePorts
    /\ \A o \in Ports : o < port => o \in Assigned
    /\ lport' = [lport EXCEPT ![p] = port]
    /\ lopen' = [lopen EXCEPT ![p] = TRUE]
    /\ pc' = [pc EXCEPT ![p] = "write"]
    /\ UNCHANGED <<cli, task, portFile, cfg, ctx, sig, watcher, exit, hist, call, conn,
                   quota>>

\* net.Listen fails: startIPCListener returns the error, Run exits 1.
ListenFail(p) ==
    /\ pc[p] = "listen"
    /\ osExit(p, "listen", 1)
    /\ UNCHANGED <<cli, task, portFile, cfg, ctx, hist, call, quota>>

\* The port written as []byte(string(port)), the character of that code
\* point, and not as its decimal digits.
WritePortAsRune(p) ==
    /\ pc[p] = "write"
    /\ portFile' = [portFile EXCEPT ![portFilePath(cfg[p].name)] =
                        File(<<"\f">>)]
    /\ hist' = [hist EXCEPT ![p].wrote = TRUE]
    /\ pc' = [pc EXCEPT ![p] = "started"]
    /\ UNCHANGED <<cli, task, cfg, lport, lopen, ctx, sig, watcher, exit, call, conn,
                   quota>>

\* os.MkdirAll and os.WriteFile succeed: the port is in the file, the accept
\* loop is started and the cleanup closure returned.
WritePort(p) ==
    /\ pc[p] = "write"
    /\ portFile' = [portFile EXCEPT ![portFilePath(cfg[p].name)] =
                        File(Itoa(lport[p]))]
    /\ hist' = [hist EXCEPT ![p].wrote = TRUE]
    /\ pc' = [pc EXCEPT ![p] = "started"]
    /\ UNCHANGED <<cli, task, cfg, lport, lopen, ctx, sig, watcher, exit, call, conn,
                   quota>>

\* startIPCListener with the errors of os.MkdirAll and os.WriteFile ignored:
\* it goes on with no port file written.
WritePortFailIgnored(p) ==
    /\ pc[p] = "write"
    /\ pc' = [pc EXCEPT ![p] = "started"]
    /\ UNCHANGED <<cli, task, portFile, cfg, lport, lopen, ctx, sig, watcher,
                   exit, hist, call, conn, quota>>

\* os.MkdirAll or os.WriteFile fails: listener.Close(), the error returned,
\* Run exits 1.
WritePortFail(p) ==
    /\ pc[p] = "write"
    /\ osExit(p, "port file", 1)
    /\ UNCHANGED <<cli, task, portFile, cfg, ctx, hist, call, quota>>

\* The service whose task is the one of the documented daemon pattern: it
\* begins with "if IsRunning(name) { SendStop(name) }" on its own name, then
\* waits on <-ctx.Done() and returns nil.
Pattern(n) == n = "my-daemon"

\* defer ipcCleanup(); signal.Notify(sigCh, ...); the signal goroutine is
\* started; main(ctx) is called.
RunMain(p) ==
    /\ pc[p] = "started"
    /\ watcher' = [watcher EXCEPT ![p] = "first"]
    /\ hist' = [hist EXCEPT ![p].invoked = TRUE]
    /\ pc' = [pc EXCEPT ![p] = "main"]
    /\ task' = [task EXCEPT ![p] =
                   IF Pattern(cfg[p].name) THEN "begin" ELSE "wait"]
    /\ UNCHANGED <<cli, portFile, cfg, lport, lopen, ctx, sig, exit, call, conn,
                   quota>>

\* The caller's task returns nil, whenever it chooses to: Run logs
\* "shutdown complete" and returns, which runs the deferred ipcCleanup.
TaskReturnNil(p) ==
    /\ pc[p] = "main"
    /\ task[p] = "wait"
    /\ Pattern(cfg[p].name) => ctx[p].done
    /\ pc' = [pc EXCEPT ![p] = "cleanup"]
    /\ UNCHANGED <<cli, task, portFile, cfg, lport, lopen, ctx, sig, watcher, exit,
                   hist, call, conn, quota>>

\* The caller's task returns an error: Run logs it and calls os.Exit(1),
\* which runs no deferred function.
TaskReturnErr(p) ==
    /\ pc[p] = "main"
    /\ task[p] = "wait"
    /\ osExit(p, "task error", 1)
    /\ UNCHANGED <<cli, task, portFile, cfg, ctx, hist, call, quota>>

\* The task of the daemon pattern, first statement: IsRunning(name).
TaskIsRunning(p) ==
    /\ pc[p] = "main"
    /\ task[p] = "begin"
    /\ task' = [task EXCEPT ![p] = "probe"]
    /\ call' = [call EXCEPT ![p] = NewCall("ping", cfg[p].name, <<>>)]
    /\ conn' = [conn EXCEPT ![p] = NoConn]
    /\ UNCHANGED <<cli, portFile, cfg, pc, lport, lopen, ctx, sig, watcher,
                   exit, hist, quota>>

\* IsRunning has returned: if true, SendStop(name) is called; if false the
\* task goes on to its own work and waits on <-ctx.Done().
TaskProbed(p) ==
    /\ pc[p] = "main"
    /\ task[p] = "probe"
    /\ call[p].pc = "done"
    /\ IF call[p].ret
       THEN /\ task' = [task EXCEPT ![p] = "stop"]
            /\ call' = [call EXCEPT ![p] = NewCall("stop", cfg[p].name, <<>>)]
            /\ conn' = [conn EXCEPT ![p] = NoConn]
       ELSE /\ task' = [task EXCEPT ![p] = "wait"]
            /\ UNCHANGED <<call, conn>>
    /\ UNCHANGED <<cli, portFile, cfg, pc, lport, lopen, ctx, sig, watcher,
                   exit, hist, quota>>

\* SendStop has returned (its error is dropped): the task goes on to its
\* own work and waits on <-ctx.Done().
TaskStopSent(p) ==
    /\ pc[p] = "main"
    /\ task[p] = "stop"
    /\ call[p].pc = "done"
    /\ task' = [task EXCEPT ![p] = "wait"]
    /\ UNCHANGED <<cli, portFile, cfg, pc, lport, lopen, ctx, sig, watcher,
                   exit, hist, call, conn, quota>>

\* cleanup, first statement: listener.Close()
CleanupClose(p) ==
    /\ pc[p] = "cleanup"
    /\ lopen' = [lopen EXCEPT ![p] = FALSE]
    /\ conn' = ResetBacklog(p)
    /\ hist' = [hist EXCEPT ![p].closed = TRUE]
    /\ pc' = [pc EXCEPT ![p] = "remove"]
    /\ UNCHANGED <<cli, task, portFile, cfg, lport, ctx, sig, watcher, exit, call,
                   quota>>

\* The cleanup closure without its os.Remove: the port file stays.
CleanupKeepsFile(p) ==
    /\ pc[p] = "remove"
    /\ hist' = [hist EXCEPT ![p].removed = TRUE]
    /\ osExit(p, "shutdown", 0)
    /\ UNCHANGED <<cli, task, portFile, cfg, ctx, call, quota>>

\* cleanup, second statement: os.Remove(portFile); Run returns and the
\* process ends with status 0.
CleanupRemove(p) ==
    /\ pc[p] = "remove"
    /\ portFile' = [portFile EXCEPT ![portFilePath(cfg[p].name)] = NoFile]
    /\ hist' = [hist EXCEPT ![p].removed = TRUE]
    /\ osExit(p, "shutdown", 0)
    /\ UNCHANGED <<cli, task, cfg, ctx, call, quota>>

\* ------------------------------------------------- Run: the CLI (core.go)

\* The first arguments of handleCLI's switch.
Builtins == {"--version", "-V", "--help", "-h", "help", "--health"}

\* What os.Args[1] may be: a built-in, a command a caller may register, or
\* a word nothing knows.
Args == Builtins \cup {"run", "bogus"}

\* The command tables (the keys of Config.Commands) a caller registers:
\* none, one command of its own, and one that also names every built-in.
CommandTables == {{}, {"run"}, Builtins \cup {"run"}}

\* handleCLI with the command table looked up before the switch.
handleCLICommandsFirst(arg, commands) ==
    IF arg \in commands THEN "command"
    ELSE IF arg \in {"--version", "-V"} THEN "version"
    ELSE IF arg \in {"--help", "-h", "help"} THEN "help"
    ELSE IF arg = "--health" THEN "health"
    ELSE "none"

\* handleCLI: the branch taken for os.Args[1]: the switch on the built-ins
\* first, then the lookup in cfg.Commands; "none" is return false.
handleCLI(arg, commands) ==
    IF arg \in {"--version", "-V"} THEN "version"
    ELSE IF arg \in {"--help", "-h", "help"} THEN "help"
    ELSE IF arg = "--health" THEN "health"
    ELSE IF arg \in commands THEN "command"
    ELSE "none"

\* The branch of the CLI part of Run a process at its start is on: handleCLI
\* is called only if len(os.Args) > 1.
Branch(p) ==
    IF cli[p].args = <<>> THEN "none"
    ELSE handleCLI(cli[p].args[1], cli[p].commands)

\* A program is started with any arguments, any command table, with a task
\* or without: Run begins with log.Init.
LaunchCLI(p, n, args, commands, main) ==
    /\ pc[p] = "idle"
    /\ n \in quota.names
    /\ \A q \in Procs : Before(q, p) => pc[q] # "idle"
    /\ quota.launch > 0
    /\ quota' = [quota EXCEPT !.launch = @ - 1]
    /\ cfg' = [cfg EXCEPT ![p] = Config(n)]
    /\ cli' = [cli EXCEPT ![p] = [NoCli EXCEPT !.args = args,
                                               !.commands = commands,
                                               !.main = main]]
    /\ pc' = [pc EXCEPT ![p] = "cli"]
    /\ UNCHANGED <<task, portFile, lport, lopen, ctx, sig, watcher, exit,
                   hist, call, conn>>

\* case "--version", "-V": the version is printed, handleCLI returns true
\* and Run returns.
CLIVersion(p) ==
    /\ pc[p] = "cli"
    /\ Branch(p) = "version"
    /\ cli' = [cli EXCEPT ![p].out = "version"]
    /\ osExit(p, "version", 0)
    /\ UNCHANGED <<task, portFile, cfg, ctx, hist, call, quota>>

\* case "--help", "-h", "help": printUsage(cfg), return true.
CLIHelp(p) ==
    /\ pc[p] = "cli"
    /\ Branch(p) = "help"
    /\ cli' = [cli EXCEPT ![p].out = "usage"]
    /\ osExit(p, "help", 0)
    /\ UNCHANGED <<task, portFile, cfg, ctx, hist, call, quota>>

\* case "--health": IsRunning(cfg.Name) is called.
CLIHealth(p) ==
    /\ pc[p] = "cli"
    /\ Branch(p) = "health"
    /\ pc' = [pc EXCEPT ![p] = "health"]
    /\ call' = [call EXCEPT ![p] = NewCall("ping", cfg[p].name, <<>>)]
    /\ UNCHANGED <<cli, task, portFile, cfg, lport, lopen, ctx, sig, watcher,
                   exit, hist, conn, quota>>

\* IsRunning returned true: "OK" is printed, return true.
HealthOK(p) ==
    /\ pc[p] = "health"
    /\ call[p].pc = "done"
    /\ call[p].ret
    /\ cli' = [cli EXCEPT ![p].out = "OK"]
    /\ osExit(p, "health ok", 0)
    /\ UNCHANGED <<task, portFile, cfg, ctx, hist, call, quota>>

\* The failed health probe without its os.Exit(1): "NOT RUNNING" is printed
\* and handleCLI returns true.
HealthFailReturns(p) ==
    /\ pc[p] = "health"
    /\ call[p].pc = "done"
    /\ ~call[p].ret
    /\ cli' = [cli EXCEPT ![p].out = "NOT RUNNING"]
    /\ osExit(p, "health failed", 0)
    /\ UNCHANGED <<task, portFile, cfg, ctx, hist, call, quota>>

\* IsRunning returned false: "NOT RUNNING" is printed, os.Exit(1).
HealthFail(p) ==
    /\ pc[p] = "health"
    /\ call[p].pc = "done"
    /\ ~call[p].ret
    /\ cli' = [cli EXCEPT ![p].out = "NOT RUNNING"]
    /\ osExit(p, "health failed", 1)
    /\ UNCHANGED <<task, portFile, cfg, ctx, hist, call, quota>>

\* if cmd, ok := cfg.Commands[arg]; ok { cmd.Run(os.Args[2:]) ...
CLICommand(p) ==
    /\ pc[p] = "cli"
    /\ Branch(p) = "command"
    /\ cli' = [cli EXCEPT ![p].ran = TRUE]
    /\ pc' = [pc EXCEPT ![p] = "command"]
    /\ UNCHANGED <<task, portFile, cfg, lport, lopen, ctx, sig, watcher, exit,
                   hist, call, conn, quota>>

\* cmd.Run returned nil: return true.
CommandReturnNil(p) ==
    /\ pc[p] = "command"
    /\ osExit(p, "command ok", 0)
    /\ UNCHANGED <<cli, task, portFile, cfg, ctx, hist, call, quota>>

\* cmd.Run returned an error: it is printed, os.Exit(1).
CommandReturnErr(p) ==
    /\ pc[p] = "command"
    /\ cli' = [cli EXCEPT ![p].out = "error"]
    /\ osExit(p, "command error", 1)
    /\ UNCHANGED <<task, portFile, cfg, ctx, hist, call, quota>>

\* Run without its "if main == nil" block: with no task it goes on to the
\* singleton check all the same.
CLINoMainStartsDaemon(p) ==
    /\ pc[p] = "cli"
    /\ Branch(p) = "none"
    /\ ~cli[p].main
    /\ pc' = [pc EXCEPT ![p] = "singleton"]
    /\ call' = [call EXCEPT ![p] = NewCall("ping", cfg[p].name, <<>>)]
    /\ UNCHANGED <<cli, task, portFile, cfg, lport, lopen, ctx, sig, watcher,
                   exit, hist, conn, quota>>

\* handleCLI was not called or returned false, and main == nil: usage is
\* printed if there was no argument, and Run returns.
CLINoMain(p) ==
    /\ pc[p] = "cli"
    /\ Branch(p) = "none"
    /\ ~cli[p].main
    /\ cli' = [cli EXCEPT ![p].out =
                  IF cli[p].args = <<>> THEN "usage" ELSE "none"]
    /\ osExit(p, "cli only", 0)
    /\ UNCHANGED <<task, portFile, cfg, ctx, hist, call, quota>>

\* handleCLI was not called or returned false, and there is a task: daemon
\* mode, which begins with the singleton check.
CLIDaemon(p) ==
    /\ pc[p] = "cli"
    /\ Branch(p) = "none"
    /\ cli[p].main
    /\ pc' = [pc EXCEPT ![p] = "singleton"]
    /\ call' = [call EXCEPT ![p] = NewCall("ping", cfg[p].name, <<>>)]
    /\ UNCHANGED <<cli, task, portFile, cfg, lport, lopen, ctx, sig, watcher,
                   exit, hist, conn, quota>>

\* ------------------------------------------------------ the signal bridge

SigChCap == 1

\* The OS delivers SIGINT or SIGTERM to a process that has called
\* signal.Notify: package signal does a non-blocking send on sigCh, so a
\* signal that finds the buffer full is dropped.
Signal(p) ==
    /\ watcher[p] # "off"
    /\ quota.sig > 0
    /\ quota' = [quota EXCEPT !.sig = @ - 1]
    /\ sig' = [sig EXCEPT ![p] =
                  [ch |-> IF @.ch < SigChCap THEN @.ch + 1 ELSE @.ch,
                   sent |-> @.sent + 1]]
    /\ UNCHANGED <<cli, task, portFile, cfg, pc, lport, lopen, ctx, watcher, exit,
                   hist, call, conn>>

\* <-sigCh; log; cancel()
WatcherFirst(p) ==
    /\ watcher[p] = "first"
    /\ sig[p].ch > 0
    /\ sig' = [sig EXCEPT ![p].ch = @ - 1]
    /\ ctx' = [ctx EXCEPT ![p] = CancelFunc(@)]
    /\ watcher' = [watcher EXCEPT ![p] = "second"]
    /\ UNCHANGED <<cli, task, portFile, cfg, pc, lport, lopen, exit, hist, call, conn,
                   quota>>

\* <-sigCh; log "forced shutdown"; os.Exit(1)
WatcherSecond(p) ==
    /\ watcher[p] = "second"
    /\ sig[p].ch > 0
    /\ osExit(p, "forced", 1)
    /\ UNCHANGED <<cli, task, portFile, cfg, ctx, hist, call, quota>>

\* ------------------------------------------------- the IPC server (ipc.go)

\* The accept goroutine exists once startIPCListener has written the port
\* file, and Accept succeeds as long as the listener is open.
Accepting(p) == Alive(p) /\ hist[p].wrote /\ lopen[p]

\* The accept loop calling handleIPCConnection itself, with no goroutine:
\* it accepts the next connection when the handler of the last has returned.
AcceptOneAtATime(p, c) ==
    /\ Accepting(p)
    /\ conn[c].srv = p
    /\ conn[c].st = "backlog"
    /\ \A d \in Callers : conn[d].srv = p => conn[d].st \in {"backlog", "closed"}
    /\ conn' = [conn EXCEPT ![c].st = "read"]
    /\ UNCHANGED <<cli, task, portFile, cfg, pc, lport, lopen, ctx, sig,
                   watcher, exit, hist, call, quota>>

\* conn, err := listener.Accept(); go handleIPCConnection(conn, ...)
Accept(p, c) ==
    /\ Accepting(p)
    /\ conn[c].srv = p
    /\ conn[c].st = "backlog"
    /\ conn' = [conn EXCEPT ![c].st = "read"]
    /\ UNCHANGED <<cli, task, portFile, cfg, pc, lport, lopen, ctx, sig, watcher, exit,
                   hist, call, quota>>

\* The switch with its default branch never calling the handler.
DispatchUnknownAlways(cmd, handler) ==
    IF cmd = <<"STOP">> THEN [st |-> "stop", out |-> <<>>]
    ELSE IF cmd = <<"PING">> THEN [st |-> "closed", out |-> <<"PONG", "\n">>]
    ELSE [st |-> "closed", out |-> <<"UNKNOWN", "\n">>]

\* What the caller's IPCHandler answers.
IPCHandler(cmd) == <<"confirm">>

\* The switch of handleIPCConnection on the trimmed line: the state the
\* handler goes to and what it has written when it gets there.  PING and the
\* command nobody handles are answered at once; STOP and a custom command
\* take further steps.
Dispatch(cmd, handler) ==
    IF cmd = <<"STOP">> THEN [st |-> "stop", out |-> <<>>]
    ELSE IF cmd = <<"PING">> THEN [st |-> "closed", out |-> <<"PONG", "\n">>]
    ELSE IF handler THEN [st |-> "custom", out |-> <<>>]
    ELSE [st |-> "closed", out |-> <<"UNKNOWN", "\n">>]

\* line, err := reader.ReadString('\n'); if err != nil { return };
\* cmd := strings.TrimSpace(line); switch cmd.  The read blocks until the
\* line is complete or the peer has closed.
HandleRead(p, c) ==
    /\ conn[c].srv = p
    /\ conn[c].st = "read"
    /\ HasLine(conn[c].inb) \/ conn[c].eof
    /\ LET r == ReadString(conn[c].inb)
           cmd == TrimSpace(r.line)
           d == Dispatch(cmd, cfg[p].handler)
       IN  conn' = [conn EXCEPT ![c] =
                IF r.err THEN [@ EXCEPT !.st = "closed"]
                ELSE [@ EXCEPT !.cmd = cmd, !.st = d.st, !.out = d.out]]
    /\ UNCHANGED <<cli, task, portFile, cfg, pc, lport, lopen, ctx, sig, watcher, exit,
                   hist, call, quota>>

\* case "STOP": log.Info(...); conn.Write([]byte("OK\n"))
StopWrite(p, c) ==
    /\ conn[c].srv = p
    /\ conn[c].st = "stop"
    /\ conn' = [conn EXCEPT ![c].out = <<"OK", "\n">>, ![c].st = "cancel"]
    /\ UNCHANGED <<cli, task, portFile, cfg, pc, lport, lopen, ctx, sig, watcher, exit,
                   hist, call, quota>>

\* case "STOP": cancel(); then the deferred conn.Close()
StopCancel(p, c) ==
    /\ conn[c].srv = p
    /\ conn[c].st = "cancel"
    /\ ctx' = [ctx EXCEPT ![p] = CancelFunc(@)]
    /\ conn' = [conn EXCEPT ![c].st = "closed"]
    /\ UNCHANGED <<cli, task, portFile, cfg, pc, lport, lopen, sig, watcher, exit,
                   hist, call, quota>>

\* default: response := handler(cmd) returns, if it ever does;
\* conn.Write([]byte(response + "\n")); the deferred conn.Close()
HandlerReturn(p, c) ==
    /\ conn[c].srv = p
    /\ conn[c].st = "custom"
    /\ conn' = [conn EXCEPT ![c].out = IPCHandler(conn[c].cmd) \o <<"\n">>,
                            ![c].st = "closed"]
    /\ UNCHANGED <<cli, task, portFile, cfg, pc, lport, lopen, ctx, sig, watcher, exit,
                   hist, call, quota>>

\* ------------------------------------------------- the IPC client (ipc.go)

\* What the three client functions write to the connection; a peer that is
\* none of them ("raw") writes its bytes and no line feed.
Request(k) ==
    CASE k.op = "ping" -> <<"PING", "\n">>
      [] k.op = "stop" -> <<"STOP", "\n">>
      [] k.op = "raw" -> k.cmd
      [] OTHER -> k.cmd \o <<"\n">>

\* A client program calls IsRunning, SendStop or SendCommand.
StartCall(c, op, n, cmd) ==
    /\ c \in Clients
    /\ n \in quota.names
    /\ call[c].pc \in {"idle", "done"}
    /\ \A d \in Clients : Before(d, c) => call[d].pc # "idle"
    /\ conn[c].st \in {"none", "closed"}
    /\ quota.call > 0
    /\ quota' = [quota EXCEPT !.call = @ - 1]
    /\ call' = [call EXCEPT ![c] = NewCall(op, n, cmd)]
    /\ conn' = [conn EXCEPT ![c] = NoConn]
    /\ UNCHANGED <<cli, task, portFile, cfg, pc, lport, lopen, ctx, sig, watcher, exit,
                   hist>>

\* The early returns of the client functions: IsRunning returns false,
\* SendStop and SendCommand return the error wrapped with what failed.
Failed(k, what) ==
    [k EXCEPT !.pc = "done", !.ret = FALSE,
              !.err = IF k.op = "ping" THEN "" ELSE what]

\* port, err := readPort(name); if err != nil { return ... "not running" }
Resolve(c) ==
    /\ call[c].pc = "resolve"
    /\ LET r == readPort(call[c].name)
       IN  call' = [call EXCEPT ![c] =
                IF r.ok THEN [@ EXCEPT !.port = r.val, !.pc = "dial"]
                ELSE Failed(@, "not running")]
    /\ UNCHANGED <<cli, task, portFile, cfg, pc, lport, lopen, ctx, sig, watcher, exit,
                   hist, conn, quota>>

\* The processes listening on a port (one at most).
ListeningOn(port) == {q \in Procs : lopen[q] /\ lport[q] = port}

\* conn, err := net.Dial("tcp", "127.0.0.1:port"): refused unless a listener
\* holds the port; then conn.Write of the request.
Dial(c) ==
    /\ call[c].pc = "dial"
    /\ IF ListeningOn(call[c].port) # {}
       THEN /\ \E q \in ListeningOn(call[c].port) :
                  conn' = [conn EXCEPT ![c] =
                      [NoConn EXCEPT !.srv = q, !.st = "backlog",
                                     !.inb = Request(call[c])]]
            /\ call' = [call EXCEPT ![c].pc = "read"]
       ELSE /\ call' = [call EXCEPT ![c] = Failed(@, "connect")]
            /\ conn' = conn
    /\ UNCHANGED <<cli, task, portFile, cfg, pc, lport, lopen, ctx, sig, watcher, exit,
                   hist, quota>>

\* What each client function returns from its reader.ReadString('\n').
Returned(k, r) ==
    CASE k.op = "ping" ->
            [k EXCEPT !.pc = "done", !.ret = (TrimSpace(r.line) = <<"PONG">>)]
      [] k.op = "stop" ->
            [k EXCEPT !.pc = "done",
                      !.err = IF r.err THEN "read response"
                              ELSE IF TrimSpace(r.line) # <<"OK">>
                              THEN "unexpected response"
                              ELSE ""]
      [] OTHER ->
            [k EXCEPT !.pc = "done",
                      !.err = IF r.err THEN "read response" ELSE "",
                      !.resp = IF r.err THEN <<>> ELSE TrimSpace(r.line)]

\* What IsRunning(name) returns when it runs from its first statement to
\* its last against the state as it is, the server it reaches answering
\* with no other step in between.
IsRunningNow(name) ==
    LET r == readPort(name)
        k == NewCall("ping", name, <<>>)
    IN  /\ r.ok
        /\ \E q \in ListeningOn(r.val) :
              LET cmd == TrimSpace(ReadString(Request(k)).line)
                  d == Dispatch(cmd, cfg[q].handler)
              IN  Returned(k, ReadString(d.out)).ret

\* response, err := reader.ReadString('\n'): it returns when a whole line
\* has arrived or the peer has closed, and has no deadline.
Read(c) ==
    /\ call[c].pc = "read"
    /\ HasLine(conn[c].out) \/ conn[c].st = "closed"
    /\ call' = [call EXCEPT ![c] = Returned(@, ReadString(conn[c].out))]
    /\ UNCHANGED <<cli, task, portFile, cfg, pc, lport, lopen, ctx, sig, watcher, exit,
                   hist, conn, quota>>

\* A peer that is not one of the client functions closes its end of the
\* connection, having sent what it sent.
RawClose(c) ==
    /\ call[c].op = "raw"
    /\ call[c].pc = "read"
    /\ conn[c].st \notin {"none", "closed"}
    /\ conn' = [conn EXCEPT ![c].eof = TRUE]
    /\ call' = [call EXCEPT ![c].pc = "done"]
    /\ UNCHANGED <<cli, task, portFile, cfg, pc, lport, lopen, ctx, sig,
                   watcher, exit, hist, quota>>

\* ------------------------------------------------------ the specification

\* No process runs, no client calls, and the port files are as given.
Start(files, q) ==
    /\ portFile = files
    /\ cfg = [p \in Procs |-> NoCfg]
    /\ pc = [p \in Procs |-> "idle"]
    /\ lport = [p \in Procs |-> 0]
    /\ lopen = [p \in Procs |-> FALSE]
    /\ ctx = [p \in Procs |-> NoCtx]
    /\ sig = [p \in Procs |-> NoSig]
    /\ watcher = [p \in Procs |-> "off"]
    /\ exit = [p \in Procs |-> NoExit]
    /\ hist = [p \in Procs |-> NoHist]
    /\ call = [c \in Callers |-> NoCall]
    /\ conn = [c \in Callers |-> NoConn]
    /\ quota = q
    /\ cli = [p \in Procs |-> NoCli]
    /\ task = [p \in Procs |-> "wait"]

Quota(names) ==
    [launch |-> MaxLaunches, call |-> MaxCalls, sig |-> MaxSignals,
     names |-> names]

\* A machine on which no service has run yet.
Init == Start([n \in Names |-> NoFile], Quota({"demo", "other"}))

\* Run in daemon mode, from the singleton check to the exit.
DaemonNext ==
    \/ \E p \in Procs : SingletonExit(p)
    \/ \E p \in Procs : SingletonPass(p)
    \/ \E p \in Procs, port \in Ports : Listen(p, port)
    \/ \E p \in Procs : ListenFail(p)
    \/ \E p \in Procs : WritePort(p)
    \/ \E p \in Procs : WritePortFail(p)
    \/ \E p \in Procs : RunMain(p)
    \/ \E p \in Procs : TaskReturnNil(p)
    \/ \E p \in Procs : TaskReturnErr(p)
    \/ \E p \in Procs : CleanupClose(p)
    \/ \E p \in Procs : CleanupRemove(p)

\* The signals and the signal goroutine.
SignalNext ==
    \/ \E p \in Procs : Signal(p)
    \/ \E p \in Procs : WatcherFirst(p)
    \/ \E p \in Procs : WatcherSecond(p)

\* The accept loop and the handlers, up to the switch on the command.
AcceptNext ==
    \/ \E p \in Procs, c \in Callers : Accept(p, c)
    \/ \E p \in Procs, c \in Callers : HandleRead(p, c)

\* The handlers of STOP and of a custom command.
CommandNext ==
    \/ \E p \in Procs, c \in Callers : StopWrite(p, c)
    \/ \E p \in Procs, c \in Callers : StopCancel(p, c)
    \/ \E p \in Procs, c \in Callers : HandlerReturn(p, c)

\* The client programs call IsRunning, SendStop and SendCommand.
CallNext ==
    \/ \E c \in Clients, op \in {"ping", "stop"}, n \in Names :
            StartCall(c, op, n, <<>>)
    \/ \E c \in Clients, n \in Names, cmd \in Cmds :
            StartCall(c, "send", n, cmd)

\* The steps of a client function, in a client program or in Run.
ClientNext ==
    \/ \E c \in Callers : Resolve(c)
    \/ \E c \in Callers : Dial(c)
    \/ \E c \in Callers : Read(c)

Next ==
    \/ \E p \in Procs, n \in Names : Launch(p, n)
    \/ DaemonNext
    \/ SignalNext
    \/ AcceptNext
    \/ CommandNext
    \/ CallNext
    \/ ClientNext

Spec == Init /\ [][Next]_vars

\* The steps of the CLI part of Run.
CLINext ==
    \/ \E p \in Procs, n \in Names, a \in Args, t \in CommandTables,
          m \in BOOLEAN : LaunchCLI(p, n, <<a>>, t, m)
    \/ \E p \in Procs, n \in Names, t \in CommandTables, m \in BOOLEAN :
          LaunchCLI(p, n, <<>>, t, m)
    \/ \E p \in Procs : CLIVersion(p)
    \/ \E p \in Procs : CLIHelp(p)
    \/ \E p \in Procs : CLIHealth(p)
    \/ \E p \in Procs : HealthOK(p)
    \/ \E p \in Procs : HealthFail(p)
    \/ \E p \in Procs : CLICommand(p)
    \/ \E p \in Procs : CommandReturnNil(p)
    \/ \E p \in Procs : CommandReturnErr(p)
    \/ \E p \in Procs : CLINoMain(p)
    \/ \E p \in Procs : CLIDaemon(p)

\* One service, "demo", whose binary is started with any command line.
InitCLI == Start([n \in Names |-> NoFile], Quota({"demo"}))

\* Run from its first statement; no client program calls, so the servers
\* see the health probes and the singleton checks only.
NextCLI == CLINext \/ DaemonNext \/ SignalNext \/ AcceptNext \/ ClientNext

SpecCLI == InitCLI /\ [][NextCLI]_vars

\* What arrives on the wire besides the plain commands: white space before
\* and after the command, and a second line after the first.
WireCmds == {<<" ", "PING">>, <<"STOP", " ">>, <<"PING", "\n", "STOP">>,
             <<"dialog">>}

\* What a peer sends that ends with no line feed.
RawBytes == {<<>>, <<"STOP">>}

\* The peers of the servers: SendCommand with any line, and peers that send
\* no whole line and then close.
WireCallNext ==
    \/ \E c \in Clients, n \in Names, cmd \in WireCmds :
            StartCall(c, "send", n, cmd)
    \/ \E c \in Clients, n \in Names, b \in RawBytes :
            StartCall(c, "raw", n, b)
    \/ \E c \in Clients : RawClose(c)

\* Run in daemon mode with any peer on the wire, and no signals.
NextWire ==
    \/ \E p \in Procs, n \in Names : Launch(p, n)
    \/ DaemonNext
    \/ AcceptNext
    \/ CommandNext
    \/ WireCallNext
    \/ ClientNext

SpecWire == Init /\ [][NextWire]_vars

\* One service, "demo", with a peer more than in the other specifications,
\* so that one connection can stall while another is served.
InitStall ==
    Start([n \in Names |-> NoFile],
          [Quota({"demo"}) EXCEPT !.call = MaxCalls + 1])

\* The peers that stall a handler (a custom command whose IPCHandler takes
\* its time, a peer that sends no line feed) and the peer that asks for the
\* shutdown.
StallCallNext ==
    \/ \E c \in Clients, n \in Names : StartCall(c, "send", n, <<"dialog">>)
    \/ \E c \in Clients, n \in Names : StartCall(c, "raw", n, <<"STOP">>)
    \/ \E c \in Clients, n \in Names : StartCall(c, "stop", n, <<>>)
    \/ \E c \in Clients : RawClose(c)

NextStall ==
    \/ \E p \in Procs, n \in Names : Launch(p, n)
    \/ DaemonNext
    \/ AcceptNext
    \/ CommandNext
    \/ StallCallNext
    \/ ClientNext

SpecStall == InitStall /\ [][NextStall]_vars

\* The service of the documented daemon pattern, "my-daemon".
InitPattern == Start([n \in Names |-> NoFile], Quota({"my-daemon"}))

\* Run with the task of the daemon pattern, which returns nil and no error;
\* the service has no IPCHandler, and no signal is sent.
NextPattern ==
    \/ \E p \in Procs, n \in Names : Launch(p, n)
    \/ \E p \in Procs : SingletonExit(p)
    \/ \E p \in Procs : SingletonPass(p)
    \/ \E p \in Procs, port \in Ports : Listen(p, port)
    \/ \E p \in Procs : ListenFail(p)
    \/ \E p \in Procs : WritePort(p)
    \/ \E p \in Procs : WritePortFail(p)
    \/ \E p \in Procs : RunMain(p)
    \/ \E p \in Procs : TaskIsRunning(p)
    \/ \E p \in Procs : TaskProbed(p)
    \/ \E p \in Procs : TaskStopSent(p)
    \/ \E p \in Procs : TaskReturnNil(p)
    \/ \E p \in Procs : CleanupClose(p)
    \/ \E p \in Procs : CleanupRemove(p)
    \/ AcceptNext
    \/ \E p \in Procs, c \in Callers : StopWrite(p, c)
    \/ \E p \in Procs, c \in Callers : StopCancel(p, c)
    \/ CallNext
    \/ ClientNext

SpecPattern == InitPattern /\ [][NextPattern]_vars

\* The port file may hold anything when the program first looks: text that
\* is no number, or white space only.
Garbage == {<<"x", "1">>, <<" ", "\n">>}

\* One service, "demo", whose port file is absent or garbage at first.
InitDirty ==
    \E f \in {NoFile} \cup {File(g) : g \in Garbage} :
        Start([n \in Names |-> IF n = "demo" THEN f ELSE NoFile],
              Quota({"demo"}))

SpecDirty == InitDirty /\ [][Next]_vars

\* What the Go scheduler and the kernel guarantee: every goroutine that can
\* take its next step takes it.  Nothing is assumed of the environment (the
\* signals, the client programs started, the failures of net.Listen and of
\* the file system) nor of the caller's code (the task and the IPCHandler
\* return when they choose to, or never).
RunStep(p) ==
    \/ SingletonExit(p)
    \/ SingletonPass(p)
    \/ \E port \in Ports : Listen(p, port)
    \/ WritePort(p)
    \/ RunMain(p)
    \/ CleanupClose(p)
    \/ CleanupRemove(p)

WatcherStep(p) == WatcherFirst(p) \/ WatcherSecond(p)

ServerStep(p, c) ==
    Accept(p, c) \/ HandleRead(p, c) \/ StopWrite(p, c) \/ StopCancel(p, c)

ClientStep(c) == Resolve(c) \/ Dial(c) \/ Read(c)

Fairness ==
    /\ \A p \in Procs : WF_vars(RunStep(p)) /\ WF_vars(WatcherStep(p))
    /\ \A p \in Procs, c \in Callers : WF_vars(ServerStep(p, c))
    /\ \A c \in Callers : WF_vars(ClientStep(c))

\* One service, "demo", under fair scheduling.
InitFair == Start([n \in Names |-> NoFile], Quota({"demo"}))

FairSpec == InitFair /\ [][Next]_vars /\ Fairness

\* A task of the documented kind: it waits on <-ctx.Done() and then returns
\* nil, so once its context is cancelled it returns.
TaskObeys ==
    \A p \in Procs : WF_vars(ctx[p].done /\ TaskReturnNil(p))

\* One service, "demo", to which one termination signal at most is sent.
InitObeying == Start([n \in Names |-> NoFile],
                     [Quota({"demo"}) EXCEPT !.sig = SigChCap])

\* The runs in which a shutdown is graceful: nothing fails at startup, the
\* task returns no error, and no second signal comes.
NextObeying ==
    \/ \E p \in Procs, n \in Names : Launch(p, n)
    \/ \E p \in Procs : SingletonExit(p)
    \/ \E p \in Procs : SingletonPass(p)
    \/ \E p \in Procs, port \in Ports : Listen(p, port)
    \/ \E p \in Procs : WritePort(p)
    \/ \E p \in Procs : RunMain(p)
    \/ \E p \in Procs : TaskReturnNil(p)
    \/ \E p \in Procs : CleanupClose(p)
    \/ \E p \in Procs : CleanupRemove(p)
    \/ \E p \in Procs : Signal(p)
    \/ \E p \in Procs : WatcherFirst(p)
    \/ AcceptNext
    \/ CommandNext
    \/ CallNext
    \/ ClientNext

FairSpecObeying ==
    InitObeying /\ [][NextObeying]_vars /\ Fairness /\ TaskObeys


\* -------------------------------------------------------------- the claims

Stop == <<"STOP">>

\* The handler of connection c has read a STOP.
StopHandled(c) == conn[c].srv # "none" /\ conn[c].cmd = Stop

\* C1: a STOP handled by a running instance is acknowledged before the
\* context is cancelled (the handler about to call cancel has written OK),
\* and a client whose sendCommand(n, "STOP") was read by the handler of a
\* running instance gets exactly "OK".
C1_StopAcknowledged ==
    \A c \in Callers :
        /\ conn[c].st = "cancel" => conn[c].out = <<"OK", "\n">>
        /\ (call[c].pc = "done" /\ call[c].op = "send" /\ call[c].cmd = Stop
                /\ StopHandled(c))
              => call[c].resp = <<"OK">> /\ call[c].err = ""

\* The first half of C1 alone: the handler calls cancel only with OK written.
AckWrittenBeforeCancel ==
    [][\A p \in Procs :
          (ctx'[p] # ctx[p] /\ watcher'[p] = watcher[p]) =>
              \E c \in Callers : /\ conn[c].srv = p
                                 /\ conn[c].st = "cancel"
                                 /\ conn[c].out = <<"OK", "\n">>
                                 /\ conn'[c].st = "closed"]_vars

\* C2: however many STOP commands and signals reach one instance, its
\* context goes from not cancelled to cancelled at most once and is never
\* un-cancelled: it is cancelled exactly when that one transition has
\* happened.
C2_SingleCancellation ==
    \A p \in Procs : /\ ctx[p].flips <= 1
                     /\ ctx[p].done <=> ctx[p].flips = 1

\* Both a signal and a STOP have called cancel on one live instance.
C2_Witness ==
    \E p \in Procs :
        /\ Alive(p)
        /\ ctx[p].done
        /\ watcher[p] = "second"
        /\ \E c \in Callers : StopHandled(c) /\ conn[c].srv = p
                                /\ conn[c].st = "closed"

\* C3: ping(n) returns false whenever no IPC server for n is active; so a
\* ping(n) that returned true was answered by a server for n, also when the
\* port record of n is stale and its port has since gone to another service.
C3_PingOnlyOwnServer ==
    \A c \in Callers :
        (call[c].op = "ping" /\ call[c].pc = "done" /\ call[c].ret)
            => /\ conn[c].srv # "none"
               /\ cfg[conn[c].srv].name = call[c].name

\* C4: from the successful return of startIPCListener(n, ...) to the call of
\* the cleanup closure, ping(n) returns true, whatever other processes do.
C4_PingTrueUntilCleanup ==
    \A p \in Procs :
        pc[p] \in {"started", "main", "cleanup"} => IsRunningNow(cfg[p].name)

\* C5 as stated: a port record for n exists exactly when a live IPC server
\* for n holds the listening socket on the recorded port.  It is stated for
\* the states in which no task has returned an error, so that what refutes
\* it is not the exit of C6.
C5_RecordIffLiveServer ==
    (\A q \in Procs : exit[q].why # "task error") =>
        \A n \in Names :
            portFile[n].exists <=>
                \E p \in Procs :
                    /\ cfg[p].name = n
                    /\ lopen[p]
                    /\ readPort(n) = [ok |-> TRUE, val |-> lport[p]]

\* C5 as amended: the port record of n is created only by the port-file
\* write of a starting server for n, whose open listener holds the recorded
\* port at that moment, and is deleted only by the remove step of the
\* cleanup closure of an instance of n.
C5_RecordLifecycle ==
    [][\A n \in Names :
          portFile'[n] # portFile[n] =>
              \/ \E p \in Procs :
                    /\ cfg[p].name = n
                    /\ pc[p] = "write" /\ pc'[p] = "started"
                    /\ lopen[p]
                    /\ portFile'[n].exists
                    /\ Atoi(TrimSpace(portFile'[n].data))
                           = [ok |-> TRUE, val |-> lport[p]]
              \/ \E p \in Procs :
                    /\ cfg[p].name = n
                    /\ pc[p] = "remove" /\ pc'[p] = "exited"
                    /\ ~portFile'[n].exists]_vars

\* A running instance whose record names the port its listener holds.
C5_Witness ==
    \E p \in Procs : /\ pc[p] = "main"
                     /\ lopen[p]
                     /\ readPort(cfg[p].name) = [ok |-> TRUE, val |-> lport[p]]

\* C6: in daemon mode, a process that exits because its task returned, with
\* an error or without, has run the cleanup closure first: the listener was
\* closed and the port record removed.
C6_CleanupBeforeExit ==
    \A p \in Procs :
        (pc[p] = "exited" /\ exit[p].why \in {"task error", "shutdown"})
            => hist[p].closed /\ hist[p].removed

\* C7: when IsRunning(name) is true at the singleton check, the next step of
\* Run is the exit with status 1, and it starts nothing: the process has
\* bound no listener, written no port record and called no task, and the
\* step leaves every port record, listener, connection, signal watcher and
\* context as it was.
C7_SingletonExitStartsNothing ==
    [][\A p \in Procs :
          (pc[p] = "singleton" /\ call[p].pc = "done" /\ call[p].ret
                /\ pc'[p] # pc[p])
            => /\ pc'[p] = "exited"
               /\ exit'[p].code = 1
               /\ lport[p] = 0 /\ ~lopen[p]
               /\ ~hist[p].wrote /\ ~hist[p].invoked
               /\ UNCHANGED <<portFile, lport, lopen, watcher, ctx, hist,
                              conn>>]_vars

\* A process has left at the singleton check.
C7_Witness == \E p \in Procs : exit[p].why = "already running"


\* C8: a second termination signal delivered to a running instance whose
\* task has not returned forces the process to exit, whenever the two
\* signals arrive and whether or not the task ever returns.
C8_SecondSignalForcesExit ==
    \A p \in Procs :
        (pc[p] = "main" /\ sig[p].sent >= 2) ~> (pc[p] = "exited")

\* C9: every client call returns: a call that has begun (ping, sendCommand
\* or stop) ends, also when the peer accepts the connection and then neither
\* answers nor closes.
C9_ClientCallsReturn ==
    \A c \in Clients : (call[c].pc \in {"resolve", "dial", "read"})
                            ~> (call[c].pc = "done")

\* No instance of service n was ever started.
NeverStarted(n) == \A p \in Procs : pc[p] # "idle" => cfg[p].name # n

\* C10: a finished sendCommand failed with "not running" exactly when no
\* port was resolved, with "connect" exactly when a port was resolved and no
\* connection made, with "read response" only when connected to a peer that
\* closed without a complete line; no failure carries a response, and for a
\* name never started the outcome is "not running".
C10_FailuresClassified ==
    \A c \in Callers :
        (call[c].op = "send" /\ call[c].pc = "done") =>
            /\ call[c].err \in {"", "not running", "connect", "read response"}
            /\ call[c].err = "not running" <=> call[c].port = 0
            /\ call[c].err = "connect"
                 <=> (call[c].port # 0 /\ conn[c].srv = "none")
            /\ call[c].err = "read response"
                 => /\ conn[c].srv # "none"
                    /\ conn[c].st = "closed"
                    /\ ~HasLine(conn[c].out)
            /\ call[c].err # "" => call[c].resp = <<>>
            /\ NeverStarted(call[c].name) => call[c].err = "not running"

\* A sendCommand to a name whose port file holds no number has failed.
C10_Witness ==
    \E c \in Callers : /\ call[c].op = "send"
                       /\ call[c].pc = "done"
                       /\ portFile[call[c].name].exists
                       /\ ~readPort(call[c].name).ok


\* What a built-in first argument does: the exits it can end in.
BuiltinExits(arg) ==
    IF arg \in {"--version", "-V"} THEN {"version"}
    ELSE IF arg \in {"--help", "-h", "help"} THEN {"help"}
    ELSE {"health ok", "health failed"}

\* C11: a first argument that is a built-in flag is matched before the
\* caller's command table: whatever commands are registered, also one of the
\* same name, the caller's command function is never invoked and the process
\* ends the way the built-in does.
C11_BuiltinsFirst ==
    \A p \in Procs :
        (cli[p].args # <<>> /\ cli[p].args[1] \in Builtins) =>
            /\ ~cli[p].ran
            /\ pc[p] \in {"idle", "cli", "health", "exited"}
            /\ pc[p] = "exited" => exit[p].why \in BuiltinExits(cli[p].args[1])

\* A program that registers a command named "help" was started with the
\* argument "help" and has printed the usage.
C11_Witness ==
    \E p \in Procs : /\ cli[p].args = <<"help">>
                     /\ "help" \in cli[p].commands
                     /\ pc[p] = "exited"
                     /\ cli[p].out = "usage"

\* The failures the exit status 1 is for: singleton conflict, IPC-listener
\* startup failure, a custom command's error, a failed health probe, and the
\* task's error.
ListedFailures ==
    {"already running", "listen", "port file", "command error",
     "health failed", "task error"}

\* C13 as stated: the exit status is 1 on exactly the listed failures, and 0
\* on every other path.
C13_ExitStatus ==
    \A p \in Procs :
        pc[p] = "exited" =>
            /\ exit[p].code \in {0, 1}
            /\ exit[p].code = 1 <=> exit[p].why \in ListedFailures

\* C13 as amended: the exit status is 1 on exactly the listed failures and
\* the forced exit on a second signal, and 0 on every other path; a health
\* probe ends with 0 exactly when IsRunning returned true, a singleton
\* conflict is an IsRunning that returned true, and a command's status is
\* that of a command function that ran.
C13_ExitStatusWithForced ==
    \A p \in Procs :
        pc[p] = "exited" =>
            /\ exit[p].code \in {0, 1}
            /\ exit[p].code = 1 <=> exit[p].why \in ListedFailures \cup {"forced"}
            /\ Branch(p) = "health" =>
                  /\ call[p].op = "ping" /\ call[p].pc = "done"
                  /\ exit[p].code = 0 <=> call[p].ret
                  /\ cli[p].out = IF call[p].ret THEN "OK" ELSE "NOT RUNNING"
            /\ exit[p].why = "already running" => call[p].ret
            /\ exit[p].why \in {"command ok", "command error"} => cli[p].ran
            /\ exit[p].why \in {"shutdown", "task error", "forced"}
                  => hist[p].invoked

\* A health probe has succeeded with status 0, and the instance it found has
\* then ended with status 1 on its task's error.
C13_Witness ==
    \E p, q \in Procs : /\ exit[p] = [why |-> "health ok", code |-> 0]
                        /\ exit[q] = [why |-> "task error", code |-> 1]

\* A process is on a CLI path: its first argument matches a built-in or a
\* registered command, or it has no task.
OnCLIPath(p) == Branch(p) # "none" \/ ~cli[p].main

\* C15: on a CLI path Run starts no daemon: it never reaches the singleton
\* check, binds no listener, writes no port record, starts no signal
\* goroutine and calls no task; with no task and no argument it prints the
\* usage.
C15_NoDaemonOnCLIPath ==
    \A p \in Procs :
        OnCLIPath(p) =>
            /\ pc[p] \in {"idle", "cli", "health", "command", "exited"}
            /\ lport[p] = 0 /\ ~lopen[p]
            /\ ~hist[p].wrote /\ ~hist[p].invoked
            /\ watcher[p] = "off" /\ ~ctx[p].done
            /\ (pc[p] = "exited" /\ ~cli[p].main /\ cli[p].args = <<>>)
                  => cli[p].out = "usage"

\* A program without a task was started with an argument nothing matches,
\* and one with no argument, and both have ended.
C15_Witness ==
    \E p, q \in Procs : /\ exit[p].why = "cli only"
                        /\ cli[p].args = <<"bogus">>
                        /\ exit[q].why = "cli only"
                        /\ cli[q].args = <<>>


\* The one response that answers a command.
Response(cmd, handler) ==
    IF cmd = <<"STOP">> THEN <<"OK", "\n">>
    ELSE IF cmd = <<"PING">> THEN <<"PONG", "\n">>
    ELSE IF handler THEN IPCHandler(cmd) \o <<"\n">>
    ELSE <<"UNKNOWN", "\n">>

\* Every write and every cancellation of a handler answers the one command
\* that trimming makes of the first line of the connection (of white space
\* at both ends, or at its end only): nothing is written
\* before a whole line has come, nothing is written twice, what is written
\* is the response to that command, and only STOP cancels.
Dispatched(bothEnds) ==
    \A c \in Callers :
        LET p == conn[c].srv
            line == ReadString(conn[c].inb).line
            cmd == IF bothEnds THEN TrimSpace(line) ELSE TrimRight(line)
            written == conn'[c].out # conn[c].out /\ conn'[c].out # <<>>
            cancelled == /\ conn[c].st = "cancel" /\ conn'[c].st = "closed"
                         /\ pc'[p] = pc[p]
        IN  (p # "none" /\ (written \/ cancelled)) =>
                /\ HasLine(conn[c].inb)
                /\ written => /\ conn[c].out = <<>>
                              /\ conn'[c].out = Response(cmd, cfg[p].handler)
                /\ cancelled => /\ cmd = <<"STOP">>
                                /\ conn[c].out = <<"OK", "\n">>

\* C12 as stated: the handler reads one line, trims its trailing white space
\* only, and writes the one response the command determines; a connection
\* closed before a line feed gets no response and cancels nothing.
C12_DispatchTrailingTrim == [][Dispatched(FALSE)]_vars

\* C12 as amended: the same with the line trimmed of leading and trailing
\* white space.
C12_DispatchTrim == [][Dispatched(TRUE)]_vars

\* A line with white space before the command was answered with PONG by a
\* handler that has returned.
C12_Witness ==
    \E c \in Clients :
        /\ conn[c].srv # "none"
        /\ conn[c].st = "closed"
        /\ conn[c].inb = <<" ", "PING", "\n">>
        /\ conn[c].out = <<"PONG", "\n">>


\* The state Stopped: the task has returned, the cleanup closure has closed
\* the listener and removed the port record, and the process has ended.
Stopped(p) ==
    /\ pc[p] = "exited"
    /\ exit[p] = [why |-> "shutdown", code |-> 0]
    /\ hist[p].closed /\ hist[p].removed

\* A shutdown of the running instance p has been requested: a STOP sent to
\* it is on a connection, a signal was sent to it, or its context is
\* cancelled.
ShutdownRequested(p) ==
    /\ pc[p] = "main"
    /\ \/ ctx[p].done
       \/ sig[p].sent > 0
       \/ \E c \in Callers : /\ conn[c].srv = p
                             /\ conn[c].st \notin {"none", "closed"}
                             /\ conn[c].inb = <<"STOP", "\n">>

StartFailed(p) == exit[p].why \in {"listen", "port file"}

\* C16: the task is invoked only by a process whose listener is bound and
\* open and whose port record was written; a process whose listener could
\* not bind or whose port file could not be written has exited with a
\* non-zero status, its listener closed, and has never invoked the task.
C16_TaskAfterListenerAndRecord ==
    /\ [][\A p \in Procs :
             (hist'[p].invoked /\ ~hist[p].invoked) =>
                 /\ lopen[p] /\ lport[p] \in Ports
                 /\ hist[p].wrote
                 /\ ~StartFailed(p)]_vars
    /\ [](\A p \in Procs :
             StartFailed(p) => /\ pc[p] = "exited"
                               /\ exit[p].code # 0
                               /\ ~lopen[p]
                               /\ ~hist[p].wrote /\ ~hist[p].invoked)

\* One instance runs its task, and the start of another has failed at the
\* port file, after its listener was bound.
C16_Witness ==
    \E p, q \in Procs : /\ pc[p] = "main" /\ hist[p].invoked
                        /\ exit[q].why = "port file"


\* The handler of connection c on server p is stalled: it waits for a line
\* feed the peer has not sent, or for the IPCHandler to return.
Stalled(c, p) ==
    /\ conn[c].srv = p
    /\ \/ conn[c].st = "custom"
       \/ conn[c].st = "read" /\ ~HasLine(conn[c].inb) /\ ~conn[c].eof

\* C17: while a connection of server p is stalled, every other connection
\* of p takes its next step as if the stalled one were not there (it is
\* accepted while the listener is open, its line is read and dispatched, OK
\* is written and the context cancelled), and so does the shutdown of p: the
\* return of the task and both steps of the cleanup closure.
C17_HandlersIndependent ==
    \A p \in Procs, c \in Callers :
        Stalled(c, p) =>
            /\ \A d \in Callers \ {c} :
                  conn[d].srv = p =>
                      /\ (conn[d].st = "backlog" /\ Accepting(p))
                            => ENABLED Accept(p, d)
                      /\ (conn[d].st = "read" /\ HasLine(conn[d].inb))
                            => ENABLED HandleRead(p, d)
                      /\ conn[d].st = "stop" => ENABLED StopWrite(p, d)
                      /\ conn[d].st = "cancel" => ENABLED StopCancel(p, d)
            /\ pc[p] = "main" => ENABLED TaskReturnNil(p)
            /\ pc[p] = "cleanup" => ENABLED CleanupClose(p)
            /\ pc[p] = "remove" => ENABLED CleanupRemove(p)

\* A connection stalled for good (its handler was still waiting when the
\* process ended), and meanwhile a STOP on another connection was answered
\* OK and the instance has stopped.
C17_Witness ==
    \E p \in Procs, c, d \in Clients :
        /\ c # d
        /\ conn[c].srv = p /\ conn[c].st = "closed" /\ conn[c].out = <<>>
        /\ call[c].op \in {"raw", "send"} /\ call[c].pc = "done"
        /\ conn[d].srv = p /\ StopHandled(d)
        /\ call[d].pc = "done" /\ call[d].err = ""
        /\ ctx[p].done
        /\ Stopped(p)


\* C18: of two processes that run the same service in daemon mode, however
\* their singleton checks, binds and port-file writes interleave, at most
\* one is running its task: no state has two instances of one name in main.
C18_SingleInstance ==
    \A p, q \in Procs :
        (p # q /\ pc[p] = "main" /\ pc[q] = "main")
            => cfg[p].name # cfg[q].name

\* The port record of service n is the one instance q has written, and q is
\* still serving on the port it names.
RecordOf(n, q) ==
    /\ cfg[q].name = n
    /\ Alive(q) /\ hist[q].wrote /\ lopen[q]
    /\ readPort(n) = [ok |-> TRUE, val |-> lport[q]]

\* C19: the cleanup closure of an instance touches its own resources only:
\* its remove step never removes a port record that a different live
\* instance of the same service has written and is serving.
C19_CleanupOwnRecordOnly ==
    [][\A p \in Procs :
          (pc[p] = "remove" /\ pc'[p] = "exited") =>
              \A q \in Procs \ {p} : ~RecordOf(cfg[p].name, q)]_vars


\* C20: the STOP that the task of the daemon pattern sends with
\* SendStop(name), its own name, goes to another, previously existing
\* instance: it is never handled by the server of the process that sent it,
\* so the sender's own context is not cancelled by it.
C20_PatternStopsAnotherInstance ==
    \A p \in Procs :
        (call[p].op = "stop" /\ conn[p].srv # "none") => conn[p].srv # p

=============================================================================
